---- MODULE Spec2Model ----
(***************************************************************************)
(* Coverage-resolution pipeline of network_coverage:                       *)
(*   FindNearbySitesByAddressUseCase.execute   (app/application)           *)
(*   GeocodingService.geocode_addresses        (app/infrastructure)        *)
(*   SQLAlchemyMobileSiteRepository.find_nearby (app/infrastructure)       *)
(* Coordinates are integers on a grid; one grid step of latitude is        *)
(* KmPerLat km and one grid step of longitude is KmPerLon km.              *)
(***************************************************************************)
EXTENDS Integers, Sequences, FiniteSets, TLC

(* ------------------------------ bounds --------------------------------- *)
MaxBatch == 2
MaxSites == 2
MaxCoord == 1

(* ------------------------- program constants --------------------------- *)
Radius2G == 30
Radius3G == 5
Radius4G == 10
SEARCH_RADIUS_KM == 30
MetersPerKm == 1000

TECHNOLOGY_RADII == [t \in {"2G", "3G", "4G"} |->
    IF t = "2G" THEN Radius2G ELSE IF t = "3G" THEN Radius3G ELSE Radius4G]

(* ------------------------------ geometry ------------------------------- *)
KmPerLat == 5
KmPerLon == 6

Abs(n) == IF n < 0 THEN 0 - n ELSE n

\* geod.inv(lon1, lat1, lon2, lat2) on the grid, in metres
GeodInvMeters(lon1, lat1, lon2, lat2) ==
    (KmPerLat * Abs(lat1 - lat2) + KmPerLon * Abs(lon1 - lon2)) * MetersPerKm

\* calculate_distance_km that hands the first point to geod.inv as
\* (lat1, lon1) instead of (lon1, lat1)
calculate_distance_km_first_point_swapped(lat1, lon1, lat2, lon2) ==
    GeodInvMeters(lat1, lon1, lon2, lat2) \div MetersPerKm

calculate_distance_km(lat1, lon1, lat2, lon2) ==
    GeodInvMeters(lon1, lat1, lon2, lat2) \div MetersPerKm

(* --------------------------- domain entities --------------------------- *)
Operator == {"Orange", "SFR", "Bouygues", "Free"}

OperatorKeys == {"orange", "sfr", "bouygues", "free"}

\* str.lower() on the operator values
Lower(s) ==
    CASE s = "Orange" -> "orange"
      [] s = "SFR" -> "sfr"
      [] s = "Bouygues" -> "bouygues"
      [] s = "Free" -> "free"
      [] OTHER -> s

Coverage(g2, g3, g4) == [has_2g |-> g2, has_3g |-> g3, has_4g |-> g4]

\* the dataclass has the two fields x (longitude) and y (latitude) only
Location(x, y) == [x |-> x, y |-> y]

MobileSite(operator, location, coverage) ==
    [operator |-> operator, location |-> location, coverage |-> coverage]

\* attribute lookup on an object modelled as a record
HasAttr(obj, name) == name \in DOMAIN obj

(* ------------------------------- schemas ------------------------------- *)
CoverageInfo(g2, g3, g4) == [has_2g |-> g2, has_3g |-> g3, has_4g |-> g4]

EmptyCoverageInfo == CoverageInfo(FALSE, FALSE, FALSE)

NearbyAddressResponseItem(id, orange, sfr, bouygues, free) ==
    [id |-> id, orange |-> orange, SFR |-> sfr, bouygues |-> bouygues,
     free |-> free]

(* ------------------------------ the store ------------------------------ *)
\* rows of the mobile_sites table the model draws the store from
RowPool ==
    { [operator |-> "Orange",   x |-> 0,  y |-> 0,  has_2g |-> TRUE,  has_3g |-> TRUE,  has_4g |-> FALSE],
      [operator |-> "Orange",   x |-> 0,  y |-> 1,  has_2g |-> FALSE, has_3g |-> FALSE, has_4g |-> TRUE],
      [operator |-> "SFR",      x |-> 2,  y |-> 0,  has_2g |-> TRUE,  has_3g |-> TRUE,  has_4g |-> FALSE],
      [operator |-> "Free",     x |-> 20, y |-> 21, has_2g |-> TRUE,  has_3g |-> TRUE,  has_4g |-> TRUE],
      [operator |-> "Other",    x |-> 0,  y |-> 0,  has_2g |-> TRUE,  has_3g |-> FALSE, has_4g |-> FALSE] }

Stores == { s \in SUBSET RowPool : Cardinality(s) <= MaxSites }

\* _to_entity: a row becomes a MobileSite, an unknown operator raises
ToEntity(model) ==
    IF model.operator \in Operator
    THEN [exc |-> "none",
          site |-> MobileSite(model.operator, Location(model.x, model.y),
                              Coverage(model.has_2g, model.has_3g, model.has_4g))]
    ELSE [exc |-> "ValueError",
          site |-> MobileSite("none", Location(0, 0), Coverage(FALSE, FALSE, FALSE))]

\* ST_DWithin(geom::geography, ST_MakePoint(:longitude, :latitude), :radius_meters)
STDWithin(model, longitude, latitude, radius_meters) ==
    GeodInvMeters(model.x, model.y, longitude, latitude) <= radius_meters

\* the rows the query of find_nearby selects
MatchingRows(rows, latitude, longitude, radius_km) ==
    { m \in rows : STDWithin(m, longitude, latitude, radius_km * MetersPerKm) }

\* every order in which the database may hand back a set of rows
RECURSIVE Orderings(_)
Orderings(S) ==
    IF S = {} THEN { <<>> }
    ELSE UNION { { <<m>> \o rest : rest \in Orderings(S \ {m}) } : m \in S }

\* the conversion loop of find_nearby: a row that fails to convert is skipped
RECURSIVE ConvertModels(_)
ConvertModels(models) ==
    IF models = <<>> THEN <<>>
    ELSE LET r == ToEntity(Head(models))
         IN  IF r.exc = "none" THEN <<r.site>> \o ConvertModels(Tail(models))
             ELSE ConvertModels(Tail(models))

(* ------------------------------ geocoder ------------------------------- *)
Ids == {"a", "b"}
AddressTexts == {"paris", "lyon", "nowhere"}

\* what the address-search endpoint answers for each address text:
\* coordinates are in [longitude, latitude] order; the first answer has a
\* score of zero, the second carries no score
ProviderResponse(address) ==
    CASE address = "paris" ->
           [kind |-> "json",
            features |-> << [geometry |-> [coordinates |-> <<0, 0>>],
                             properties |-> [score |-> 0]] >>]
      [] address = "lyon" ->
           [kind |-> "json",
            features |-> << [geometry |-> [coordinates |-> <<20, 21>>]] >>]
      [] OTHER ->
           [kind |-> "json", features |-> << >>]

NoneValue == [kind |-> "None", latitude |-> 0, longitude |-> 0]
ExceptionValue == [kind |-> "Exception", latitude |-> 0, longitude |-> 0]
PendingValue == [kind |-> "pending", latitude |-> 0, longitude |-> 0]
CoordsDict(latitude, longitude) ==
    [kind |-> "dict", latitude |-> latitude, longitude |-> longitude]

\* the httpx exceptions the handlers around client.get name
HttpxErrors == {"TimeoutException", "ConnectError", "HTTPStatusError", "RequestError"}

\* a JSON null
JsonNull == [json |-> "null"]

IsNull(v) == HasAttr(v, "json")

\* client.get and raise_for_status with their handlers: what they raise
HttpGet(response) ==
    IF response.kind \in HttpxErrors THEN "GeocodingError"
    ELSE IF response.kind = "Exception" THEN "Exception"
    ELSE "none"

\* response.json() with its handler: what it raises
ParseJson(response) ==
    IF response.kind = "invalid_json" THEN "GeocodingError" ELSE "none"

\* feature.get("geometry", {}).get("coordinates", [])
FeatureCoordinates(feature) ==
    IF HasAttr(feature, "geometry") /\ HasAttr(feature.geometry, "coordinates")
    THEN feature.geometry.coordinates
    ELSE << >>

\* feature.get("properties", {}).get("score", 0.0), in hundredths
FeatureScore(feature) ==
    IF HasAttr(feature, "properties") /\ HasAttr(feature.properties, "score")
    THEN feature.properties.score
    ELSE 0

\* ExtractCoordinates that refuses a feature whose score is below one half
ExtractCoordinatesMinScore(data) ==
    IF HasAttr(data, "features") /\ Len(data.features) > 0
    THEN IF \/ HasAttr(data.features[1], "geometry") /\ IsNull(data.features[1].geometry)
            \/ HasAttr(data.features[1], "properties") /\ IsNull(data.features[1].properties)
         THEN [exc |-> "AttributeError", value |-> NoneValue]
         ELSE IF /\ Len(FeatureCoordinates(data.features[1])) >= 2
                 /\ FeatureScore(data.features[1]) >= 50
              THEN [exc |-> "none",
                    value |-> CoordsDict(FeatureCoordinates(data.features[1])[2],
                                         FeatureCoordinates(data.features[1])[1])]
              ELSE [exc |-> "none", value |-> NoneValue]
    ELSE [exc |-> "none", value |-> NoneValue]

\* the part of _geocode_single_address that reads the decoded answer: the
\* first feature's coordinates are [longitude, latitude]; its score is read
\* and logged only
ExtractCoordinates(data) ==
    IF HasAttr(data, "features") /\ Len(data.features) > 0
    THEN IF \/ HasAttr(data.features[1], "geometry") /\ IsNull(data.features[1].geometry)
            \/ HasAttr(data.features[1], "properties") /\ IsNull(data.features[1].properties)
         THEN [exc |-> "AttributeError", value |-> NoneValue]
         ELSE IF Len(FeatureCoordinates(data.features[1])) >= 2
              THEN [exc |-> "none",
                    value |-> CoordsDict(FeatureCoordinates(data.features[1])[2],
                                         FeatureCoordinates(data.features[1])[1])]
              ELSE [exc |-> "none", value |-> NoneValue]
    ELSE [exc |-> "none", value |-> NoneValue]

\* the body of the outer try of _geocode_single_address
GeocodeSingleAddressTry(response) ==
    IF HttpGet(response) # "none"
    THEN [exc |-> HttpGet(response), value |-> NoneValue]
    ELSE IF ParseJson(response) # "none"
    THEN [exc |-> ParseJson(response), value |-> NoneValue]
    ELSE ExtractCoordinates(response)

\* GeocodeSingleAddressHandler that logs and raises the exception again
GeocodeSingleAddressHandlerReraise(exc) == ExceptionValue

\* the outer handler of _geocode_single_address: except Exception, return None
GeocodeSingleAddressHandler(exc) == NoneValue

\* _geocode_single_address on the provider's answer: what the lookup
\* completes with
GeocodeSingleAddress(response) ==
    IF GeocodeSingleAddressTry(response).exc = "none"
    THEN GeocodeSingleAddressTry(response).value
    ELSE GeocodeSingleAddressHandler(GeocodeSingleAddressTry(response).exc)

(* -------------------------- coverage resolver -------------------------- *)
VARIABLES
    addresses,             \* the input batch of execute: items [id, address]
    store,                 \* rows of the mobile_sites table
    pc,                    \* position of execute
    tasks,                 \* result of each lookup handed to asyncio.gather
    completed,             \* indices of the lookups in order of completion
    coordinates,           \* the map returned by _geocode_addresses_safe
    i,                     \* index of the item the loop of execute is at
    results,               \* the list execute appends to
    coverage_by_operator,  \* accumulator of the latest coverage lookup
    queryLog,              \* the find_nearby calls issued so far
    returned,              \* the list execute returned
    raised,                \* the exception that left execute, "none" if none
    geocodeExc,            \* what geocode_addresses raised, "none" if nothing
    critical,              \* the exception the outermost handler caught
    cancelRequested,       \* cancel() was called on the task running execute
    response,              \* what the route /api/v1/nearby answered
    ctorArgs,              \* argument triples handed to MobileSite(...)
    built,                 \* what each MobileSite(...) call ended with
    session,               \* models pending in the AsyncSession of save_many
    table,                 \* rows of mobile_sites in insertion order
    tableAtCall,           \* the rows of mobile_sites when save_many was called
    savePc,                \* position of the caller of save_many
    saveReturned,          \* the list save_many returned
    saveRaised,            \* the exception that left save_many, "none" if none
    pointA,                \* first point handed to calculate_distance_km
    pointB,                \* second point handed to calculate_distance_km
    measured,              \* the distances calculate_distance_km returned
    providerAnswer,        \* how the request of one lookup to the provider ended
    lookup,                \* what _geocode_single_address completed with
    csvRows,               \* the rows csv.DictReader yields for the file
    loadPc,                \* position of load_from_csv
    row_count,             \* rows read so far
    processed_count,       \* rows parsed so far
    loadedSites,           \* the list `sites` of load_from_csv
    parsed,                \* how _parse_row ended for each row read
    savedSites,            \* the list load_from_csv handed to save_many
    loadResult             \* what load_from_csv returned or raised

\* the state of one call of execute
execVars == <<addresses, store, pc, tasks, completed, coordinates, i, results,
              coverage_by_operator, queryLog, returned, raised, geocodeExc,
              critical, cancelRequested>>

\* the state of the entity constructor and of save_many
saveVars == <<ctorArgs, built, session, table, tableAtCall, savePc,
              saveReturned, saveRaised>>

\* the state of a distance measurement
distanceVars == <<pointA, pointB, measured>>

\* the state of one call of _geocode_single_address
lookupVars == <<providerAnswer, lookup>>

\* the state of one call of load_from_csv
loaderVars == <<csvRows, loadPc, row_count, processed_count, loadedSites,
                parsed, savedSites, loadResult>>

vars == <<execVars, response, saveVars, distanceVars, lookupVars, loaderVars>>

\* the accumulator a coverage lookup starts from
NewCoverageByOperator == [k \in OperatorKeys |-> EmptyCoverageInfo]

\* RepositoryErrorCoverage with "2G": True for orange
RepositoryErrorCoverageTypo ==
    [k \in OperatorKeys |->
        IF k = "orange" THEN CoverageInfo(TRUE, FALSE, FALSE)
        ELSE CoverageInfo(FALSE, FALSE, FALSE)]

\* the dict returned by the RepositoryError handler of the coverage lookup
RepositoryErrorCoverage == [k \in OperatorKeys |-> CoverageInfo(FALSE, FALSE, FALSE)]

\* UnexpectedErrorCoverage with "4G": True for free
UnexpectedErrorCoverageTypo ==
    [k \in OperatorKeys |->
        IF k = "free" THEN CoverageInfo(FALSE, FALSE, TRUE)
        ELSE CoverageInfo(FALSE, FALSE, FALSE)]

\* the dict returned by the Exception handler of the coverage lookup
UnexpectedErrorCoverage == [k \in OperatorKeys |-> CoverageInfo(FALSE, FALSE, FALSE)]

\* one iteration of the loop over the returned sites
ApplySite(cov, site, latitude, longitude) ==
    LET operator_name == Lower(site.operator)
    IN  IF operator_name \in DOMAIN cov
        THEN IF HasAttr(site.location, "latitude") /\ HasAttr(site.location, "longitude")
             THEN LET distance_km == calculate_distance_km(
                          latitude, longitude,
                          site.location.latitude, site.location.longitude)
                      c0 == cov[operator_name]
                  IN  [exc |-> "none",
                       cov |-> [cov EXCEPT ![operator_name] =
                          [has_2g |-> c0.has_2g \/ (site.coverage.has_2g /\ distance_km <= TECHNOLOGY_RADII["2G"]),
                           has_3g |-> c0.has_3g \/ (site.coverage.has_3g /\ distance_km <= TECHNOLOGY_RADII["3G"]),
                           has_4g |-> c0.has_4g \/ (site.coverage.has_4g /\ distance_km <= TECHNOLOGY_RADII["4G"])]]]
             ELSE [exc |-> "AttributeError", cov |-> cov]
        ELSE [exc |-> "none", cov |-> cov]

RECURSIVE AggregateSites(_, _, _, _)
AggregateSites(cov, sites, latitude, longitude) ==
    IF sites = <<>> THEN [exc |-> "none", cov |-> cov]
    ELSE LET r == ApplySite(cov, Head(sites), latitude, longitude)
         IN  IF r.exc # "none" THEN r
             ELSE AggregateSites(r.cov, Tail(sites), latitude, longitude)

\* the end of the try block of _find_coverage_for_location and its two
\* handlers, on what the loop over the sites left: r.exc is what the loop
\* raised, r.cov the accumulator
CoverageLookupOutcome(r) ==
    IF r.exc = "none"
    THEN [exc |-> "none", value |-> r.cov, acc |-> r.cov]
    ELSE IF r.exc = "RepositoryError"
    THEN [exc |-> "none", value |-> RepositoryErrorCoverage, acc |-> r.cov]
    ELSE [exc |-> "none", value |-> UnexpectedErrorCoverage, acc |-> r.cov]

\* _find_coverage_for_location; queryExc is what find_nearby_sites raised
\* ("none" when it returned sites). acc is the accumulator left behind.
FindCoverageForLocation(queryExc, sites, latitude, longitude) ==
    IF queryExc = "RepositoryError"
    THEN [exc |-> "none", value |-> RepositoryErrorCoverage, acc |-> NewCoverageByOperator]
    ELSE IF queryExc # "none"
    THEN [exc |-> "none", value |-> UnexpectedErrorCoverage, acc |-> NewCoverageByOperator]
    ELSE CoverageLookupOutcome(
             AggregateSites(NewCoverageByOperator, sites, latitude, longitude))

\* the all-false item the handlers of execute and of
\* _process_address_with_coords build from one shared empty_coverage
EmptyResponseItem(id) ==
    LET empty_coverage == CoverageInfo(FALSE, FALSE, FALSE)
    IN  NearbyAddressResponseItem(id, empty_coverage, empty_coverage,
                                  empty_coverage, empty_coverage)

\* the item _process_address_with_coords builds from the coverage lookup r,
\* and its handler
CoverageResponseItem(address_id, r) ==
    IF r.exc = "none"
    THEN [exc |-> "none", acc |-> r.acc,
          value |-> NearbyAddressResponseItem(address_id, r.value["orange"],
                        r.value["sfr"], r.value["bouygues"], r.value["free"])]
    ELSE [exc |-> "none", acc |-> r.acc, value |-> EmptyResponseItem(address_id)]

\* _process_address_with_coords
ProcessAddressWithCoords(address_id, coords, queryExc, sites) ==
    CoverageResponseItem(address_id,
        FindCoverageForLocation(queryExc, sites, coords.latitude, coords.longitude))

(* ----------------------------- dict helpers ---------------------------- *)
Item(id, address) == [id |-> id, address |-> address]

Items == { Item(id, address) : id \in Ids, address \in AddressTexts }

RECURSIVE SeqsUpTo(_, _)
SeqsUpTo(S, n) ==
    IF n = 0 THEN { <<>> }
    ELSE LET shorter == SeqsUpTo(S, n - 1)
         IN  shorter \cup { Append(q, e) : q \in { r \in shorter : Len(r) = n - 1 }, e \in S }

Batches == SeqsUpTo(Items, MaxBatch)

\* AddressesDict in which a repeated key keeps its first value
RECURSIVE AddressesDictFirstWins(_)
AddressesDictFirstWins(items) ==
    IF items = <<>> THEN <<>>
    ELSE LET n == Len(items)
             d == AddressesDictFirstWins(SubSeq(items, 1, n - 1))
             item == items[n]
         IN  IF \E k \in 1..Len(d) : d[k].id = item.id
             THEN d
             ELSE Append(d, Item(item.id, item.address))

\* AddressesDict that keeps one entry for every input item
AddressesDictNoCollapse(items) ==
    [k \in 1..Len(items) |-> Item(items[k].id, items[k].address)]

\* {item.id: item.address for item in addresses}: the keys keep the order
\* of their first insertion, a repeated key keeps its place and takes the
\* later value
RECURSIVE AddressesDict(_)
AddressesDict(items) ==
    IF items = <<>> THEN <<>>
    ELSE LET n == Len(items)
             d == AddressesDict(SubSeq(items, 1, n - 1))
             item == items[n]
         IN  IF \E k \in 1..Len(d) : d[k].id = item.id
             THEN [k \in 1..Len(d) |->
                      IF d[k].id = item.id THEN Item(item.id, item.address) ELSE d[k]]
             ELSE Append(d, Item(item.id, item.address))

EmptyCoordinates == [id \in Ids |-> NoneValue]

\* dict.get(address_id): NoneValue stands for an absent key
DictGet(d, id) == d[id]

\* truth value of a lookup result or of coordinates.get(id)
Truthy(v) == v.kind = "dict"

(* ------------------------- geocode_addresses --------------------------- *)
\* ProcessGatherResults pairing the k-th key with the k-th lookup to
\* complete instead of the k-th lookup
RECURSIVE ProcessGatherResultsByCompletion(_, _, _, _)
ProcessGatherResultsByCompletion(addresses_dict, gathered, k, coords) ==
    IF k > Len(gathered) THEN coords
    ELSE LET address_id == addresses_dict[k].id
             result == gathered[completed[k]]
         IN  IF result.kind = "Exception"
             THEN ProcessGatherResultsByCompletion(addresses_dict, gathered, k + 1, coords)
             ELSE IF Truthy(result)
             THEN ProcessGatherResultsByCompletion(addresses_dict, gathered, k + 1,
                                       [coords EXCEPT ![address_id] = result])
             ELSE ProcessGatherResultsByCompletion(addresses_dict, gathered, k + 1, coords)

\* the loop over the gathered results, from index k on
RECURSIVE ProcessGatherResults(_, _, _, _)
ProcessGatherResults(addresses_dict, gathered, k, coords) ==
    IF k > Len(gathered) THEN coords
    ELSE LET address_id == addresses_dict[k].id
             result == gathered[k]
         IN  IF result.kind = "Exception"
             THEN ProcessGatherResults(addresses_dict, gathered, k + 1, coords)
             ELSE IF Truthy(result)
             THEN ProcessGatherResults(addresses_dict, gathered, k + 1,
                                       [coords EXCEPT ![address_id] = result])
             ELSE ProcessGatherResults(addresses_dict, gathered, k + 1, coords)

\* GeocodeAddressesSafeHandler that keeps what the lookups completed so far
\* have found instead of returning the empty dict
GeocodeAddressesSafeHandlerPartial(exc) ==
    [exc |-> "none",
     value |-> [id \in Ids |->
                  IF \E k \in 1..Len(tasks) :
                        AddressesDict(addresses)[k].id = id /\ Truthy(tasks[k])
                  THEN tasks[CHOOSE k \in 1..Len(tasks) :
                        AddressesDict(addresses)[k].id = id /\ Truthy(tasks[k])]
                  ELSE NoneValue]]

\* the handlers of _geocode_addresses_safe
GeocodeAddressesSafeHandler(exc) ==
    [exc |-> "none", value |-> EmptyCoordinates]

\* CriticalFailureResults built from the keys of the id-keyed dict instead of
\* the input list
CriticalFailureResultsPerKey(items) ==
    LET d == AddressesDict(items)
    IN  [j \in 1..Len(d) |->
            NearbyAddressResponseItem(d[j].id,
                CoverageInfo(FALSE, FALSE, FALSE), CoverageInfo(FALSE, FALSE, FALSE),
                CoverageInfo(FALSE, FALSE, FALSE), CoverageInfo(FALSE, FALSE, FALSE))]

\* the list the outermost handler of execute returns
CriticalFailureResults(items) ==
    [j \in 1..Len(items) |->
        NearbyAddressResponseItem(items[j].id,
            CoverageInfo(FALSE, FALSE, FALSE), CoverageInfo(FALSE, FALSE, FALSE),
            CoverageInfo(FALSE, FALSE, FALSE), CoverageInfo(FALSE, FALSE, FALSE))]

\* ExecuteHandler that returns the results appended before the fault
ExecuteHandlerPartialResults(exc, items) ==
    [exc |-> "none", value |-> results]

\* ExecuteHandler that logs and raises the exception again
ExecuteHandlerReraise(exc, items) ==
    [exc |-> exc, value |-> <<>>]

\* the outermost handler of execute: except Exception
ExecuteHandler(exc, items) ==
    [exc |-> "none", value |-> CriticalFailureResults(items)]

\* the handler around one iteration of the loop of execute
PerItemHandler(exc, address_item) ==
    [exc |-> "none", value |-> EmptyResponseItem(address_item.id)]

\* the faults session.execute can end with; find_nearby turns each of them
\* into a RepositoryError
StoreFaults == {"OperationalError", "ProgrammingError", "SQLAlchemyError", "Exception"}

FindNearbyHandler(exc) == "RepositoryError"

GeocodeFaults == {"GeocodingError", "Exception"}

(* ------------------------------- actions ------------------------------- *)
\* no request has reached the route
NoResponse == [status |-> 0, detail |-> "none", body |-> <<>>]

\* nothing has been constructed or saved
IdleSave ==
    /\ ctorArgs = <<>>
    /\ built = <<>>
    /\ session = <<>>
    /\ table = <<>>
    /\ tableAtCall = <<>>
    /\ savePc = "idle"
    /\ saveReturned = <<>>
    /\ saveRaised = "none"

\* no distance has been asked for
NotMeasured == [ab |-> 0, ba |-> 0, aa |-> 0, bb |-> 0, done |-> FALSE]

IdleDistance ==
    /\ pointA = [lat |-> 0, lon |-> 0]
    /\ pointB = [lat |-> 0, lon |-> 0]
    /\ measured = NotMeasured

\* no lookup has been asked for
NoAnswer == [kind |-> "none"]

IdleLookup ==
    /\ providerAnswer = NoAnswer
    /\ lookup = PendingValue

\* load_from_csv has not returned
NoLoadResult == [exc |-> "none", value |-> 0 - 1]

\* no file is being loaded
IdleLoader ==
    /\ csvRows = <<>>
    /\ loadPc = "idle"
    /\ row_count = 0
    /\ processed_count = 0
    /\ loadedSites = <<>>
    /\ parsed = <<>>
    /\ savedSites = <<>>
    /\ loadResult = NoLoadResult

\* a call of execute about to run, at position p
NewExecute(p) ==
    /\ addresses \in Batches
    /\ store \in Stores
    /\ pc = p
    /\ tasks = <<>>
    /\ completed = <<>>
    /\ coordinates = EmptyCoordinates
    /\ i = 1
    /\ results = <<>>
    /\ coverage_by_operator = NewCoverageByOperator
    /\ queryLog = <<>>
    /\ returned = <<>>
    /\ raised = "none"
    /\ geocodeExc = "none"
    /\ critical = "none"
    /\ cancelRequested = FALSE

\* execute is not running
IdleExecute ==
    /\ addresses = <<>>
    /\ store = {}
    /\ pc = "idle"
    /\ tasks = <<>>
    /\ completed = <<>>
    /\ coordinates = EmptyCoordinates
    /\ i = 1
    /\ results = <<>>
    /\ coverage_by_operator = NewCoverageByOperator
    /\ queryLog = <<>>
    /\ returned = <<>>
    /\ raised = "none"
    /\ geocodeExc = "none"
    /\ critical = "none"
    /\ cancelRequested = FALSE

Init ==
    /\ NewExecute("start")
    /\ response = NoResponse
    /\ IdleSave
    /\ IdleDistance
    /\ IdleLookup
    /\ IdleLoader

\* execute up to the await of asyncio.gather
StartGeocoding ==
    /\ pc = "start"
    /\ LET addresses_dict == AddressesDict(addresses)
       IN  IF Len(addresses_dict) = 0
           THEN /\ pc' = "resolving"
                /\ tasks' = <<>>
           ELSE /\ pc' = "gathering"
                /\ tasks' = [k \in 1..Len(addresses_dict) |-> PendingValue]
    /\ UNCHANGED <<addresses, store, completed, coordinates, i, results,
                   coverage_by_operator, queryLog, returned, raised, geocodeExc,
          critical>>
    /\ UNCHANGED <<cancelRequested, response, saveVars, distanceVars, lookupVars, loaderVars>>

\* one lookup completes with what _geocode_single_address returns
LookupReturns(k) ==
    /\ pc = "gathering"
    /\ k \in 1..Len(tasks)
    /\ tasks[k].kind = "pending"
    /\ \E address \in AddressTexts :
          /\ address = AddressesDict(addresses)[k].address
          /\ tasks' = [tasks EXCEPT ![k] =
                          GeocodeSingleAddress(ProviderResponse(address))]
    /\ completed' = Append(completed, k)
    /\ UNCHANGED <<addresses, store, pc, coordinates, i, results,
                   coverage_by_operator, queryLog, returned, raised, geocodeExc,
          critical>>
    /\ UNCHANGED <<cancelRequested, response, saveVars, distanceVars, lookupVars, loaderVars>>

\* one lookup completes by raising; gather hands the exception back
LookupRaises(k) ==
    /\ pc = "gathering"
    /\ k \in 1..Len(tasks)
    /\ tasks[k].kind = "pending"
    /\ tasks' = [tasks EXCEPT ![k] = ExceptionValue]
    /\ completed' = Append(completed, k)
    /\ UNCHANGED <<addresses, store, pc, coordinates, i, results,
                   coverage_by_operator, queryLog, returned, raised, geocodeExc,
          critical>>
    /\ UNCHANGED <<cancelRequested, response, saveVars, distanceVars, lookupVars, loaderVars>>

\* ProcessGathered that goes on as soon as one lookup has completed
ProcessGatheredFirstCompleted ==
    /\ pc = "gathering"
    /\ \E k \in 1..Len(tasks) : tasks[k].kind # "pending"
    /\ coordinates' = ProcessGatherResults(AddressesDict(addresses), tasks, 1,
                                           EmptyCoordinates)
    /\ pc' = "gathered"
    /\ UNCHANGED <<addresses, store, tasks, completed, i, results,
                   coverage_by_operator, queryLog, returned, raised,
                   geocodeExc, critical>>
    /\ UNCHANGED <<cancelRequested, response, saveVars, distanceVars, lookupVars, loaderVars>>

\* gather returns once every lookup has completed, and the loop over its
\* results builds the coordinate map
ProcessGathered ==
    /\ pc = "gathering"
    /\ \A k \in 1..Len(tasks) : tasks[k].kind # "pending"
    /\ coordinates' = ProcessGatherResults(AddressesDict(addresses), tasks, 1,
                                           EmptyCoordinates)
    /\ pc' = "gathered"
    /\ UNCHANGED <<addresses, store, tasks, completed, i, results,
                   coverage_by_operator, queryLog, returned, raised,
                   geocodeExc, critical>>
    /\ UNCHANGED <<cancelRequested, response, saveVars, distanceVars, lookupVars, loaderVars>>

\* geocode_addresses returns the map to execute; its locals are gone
GeocodeAddressesReturns ==
    /\ pc = "gathered"
    /\ pc' = "resolving"
    /\ tasks' = <<>>
    /\ completed' = <<>>
    /\ UNCHANGED <<addresses, store, coordinates, i, results,
                   coverage_by_operator, queryLog, returned, raised,
                   geocodeExc, critical>>
    /\ UNCHANGED <<cancelRequested, response, saveVars, distanceVars, lookupVars, loaderVars>>

\* GeocodeAddressesRaises in which no handler catches the exception and it
\* leaves execute
GeocodeAddressesRaisesEscapes(exc) ==
    /\ pc = "gathering"
    /\ \/ \A k \in 1..Len(tasks) : tasks[k].kind = "pending"
       \/ \A k \in 1..Len(tasks) : tasks[k].kind # "pending"
    /\ geocodeExc' = exc
    /\ tasks' = <<>>
    /\ completed' = <<>>
    /\ raised' = exc
    /\ pc' = "done"
    /\ UNCHANGED <<addresses, store, coordinates, i, results,
                   coverage_by_operator, queryLog, returned, critical>>
    /\ UNCHANGED <<cancelRequested, response, saveVars, distanceVars, lookupVars, loaderVars>>

\* geocode_addresses raises as a whole: while it builds the lookups, before
\* any of them has run, or once gather has returned
GeocodeAddressesRaises(exc) ==
    /\ pc = "gathering"
    /\ \/ \A k \in 1..Len(tasks) : tasks[k].kind = "pending"
       \/ \A k \in 1..Len(tasks) : tasks[k].kind # "pending"
    /\ geocodeExc' = exc
    /\ tasks' = <<>>
    /\ completed' = <<>>
    /\ LET r == GeocodeAddressesSafeHandler(exc)
       IN  IF r.exc = "none"
           THEN /\ coordinates' = r.value
                /\ pc' = "resolving"
                /\ UNCHANGED <<returned, raised, critical>>
           ELSE LET h == ExecuteHandler(r.exc, addresses)
                IN  /\ coordinates' = coordinates
                    /\ pc' = "done"
                    /\ returned' = h.value
                    /\ raised' = h.exc
                    /\ critical' = r.exc
    /\ UNCHANGED <<addresses, store, i, results, coverage_by_operator, queryLog>>
    /\ UNCHANGED <<cancelRequested, response, saveVars, distanceVars, lookupVars, loaderVars>>

\* GeocodingFailedItem with "2G": True in its empty_coverage
GeocodingFailedItemTypo(address_id) ==
    LET empty_coverage == CoverageInfo(TRUE, FALSE, FALSE)
    IN  NearbyAddressResponseItem(address_id, empty_coverage, empty_coverage,
                                  empty_coverage, empty_coverage)

\* the item built when coordinates.get(address_id) is empty
GeocodingFailedItem(address_id) ==
    LET empty_coverage == CoverageInfo(FALSE, FALSE, FALSE)
    IN  NearbyAddressResponseItem(address_id, empty_coverage, empty_coverage,
                                  empty_coverage, empty_coverage)

Range(f) == { f[k] : k \in DOMAIN f }

\* FindNearbyCall that searches within the 4G radius
FindNearbyCall4GRadius(item_index, coords) ==
    [item |-> item_index, latitude |-> coords.latitude,
     longitude |-> coords.longitude, radius_km |-> TECHNOLOGY_RADII["4G"],
     outcome |-> "pending", sites |-> {}]

\* the call of find_nearby for coords, as the log records it: the arguments,
\* how the call ended and the set of entities it returned
FindNearbyCall(item_index, coords) ==
    [item |-> item_index, latitude |-> coords.latitude,
     longitude |-> coords.longitude, radius_km |-> SEARCH_RADIUS_KM,
     outcome |-> "pending", sites |-> {}]

\* the try block around one iteration of the loop of execute: r is what
\* _process_address_with_coords ended with
GuardedItem(address_item, r) ==
    IF r.exc = "none" THEN r
    ELSE [exc |-> "none", acc |-> r.acc,
          value |-> PerItemHandler(r.exc, address_item).value]

\* one iteration of the loop of execute once find_nearby has completed
ItemOutcome(address_item, coords, queryExc, sites) ==
    GuardedItem(address_item,
        ProcessAddressWithCoords(address_item.id, coords, queryExc, sites))

\* ResolveItem that starts the store query of an item and moves on to the
\* next item without awaiting it
ResolveItemNoAwait ==
    /\ pc = "resolving"
    /\ i <= Len(addresses)
    /\ IF Truthy(DictGet(coordinates, addresses[i].id))
       THEN /\ queryLog' = Append(queryLog,
                    FindNearbyCall(i, DictGet(coordinates, addresses[i].id)))
            /\ UNCHANGED results
       ELSE /\ results' = Append(results, GeocodingFailedItem(addresses[i].id))
            /\ UNCHANGED queryLog
    /\ i' = i + 1
    /\ UNCHANGED <<addresses, store, pc, tasks, completed, coordinates,
                   coverage_by_operator, returned, raised, geocodeExc, critical>>
    /\ UNCHANGED <<cancelRequested, response, saveVars, distanceVars, lookupVars, loaderVars>>

\* ResolveItem that skips an item without coordinates instead of appending
\* its all-false result
ResolveItemDropsFailed ==
    /\ pc = "resolving"
    /\ i <= Len(addresses)
    /\ IF Truthy(DictGet(coordinates, addresses[i].id))
       THEN /\ queryLog' = Append(queryLog,
                    FindNearbyCall(i, DictGet(coordinates, addresses[i].id)))
            /\ pc' = "querying"
            /\ UNCHANGED <<i, results>>
       ELSE /\ i' = i + 1
            /\ UNCHANGED <<pc, queryLog, results>>
    /\ UNCHANGED <<addresses, store, tasks, completed, coordinates,
                   coverage_by_operator, returned, raised, geocodeExc, critical>>
    /\ UNCHANGED <<cancelRequested, response, saveVars, distanceVars, lookupVars, loaderVars>>

\* ResolveItem that queries the store whether or not the id has a coordinate
ResolveItemQueriesAll ==
    /\ pc = "resolving"
    /\ i <= Len(addresses)
    /\ queryLog' = Append(queryLog,
                          FindNearbyCall(i, DictGet(coordinates, addresses[i].id)))
    /\ pc' = "querying"
    /\ UNCHANGED <<i, results>>
    /\ UNCHANGED <<addresses, store, tasks, completed, coordinates,
                   coverage_by_operator, returned, raised, geocodeExc, critical>>
    /\ UNCHANGED <<cancelRequested, response, saveVars, distanceVars, lookupVars, loaderVars>>

\* one iteration of the loop of execute, up to the await of find_nearby
ResolveItem ==
    /\ pc = "resolving"
    /\ i <= Len(addresses)
    /\ LET address_item == addresses[i]
           coords == DictGet(coordinates, address_item.id)
       IN  IF Truthy(coords)
           THEN /\ queryLog' = Append(queryLog, FindNearbyCall(i, coords))
                /\ pc' = "querying"
                /\ UNCHANGED <<i, results>>
           ELSE /\ results' = Append(results, GeocodingFailedItem(address_item.id))
                /\ i' = i + 1
                /\ UNCHANGED <<pc, queryLog>>
    /\ UNCHANGED <<addresses, store, tasks, completed, coordinates,
                   coverage_by_operator, returned, raised, geocodeExc, critical>>
    /\ UNCHANGED <<cancelRequested, response, saveVars, distanceVars, lookupVars, loaderVars>>

\* FindNearbyReturns that keeps the result of every item in one slot shared
\* by the iterations instead of appending it
FindNearbyReturnsSharedSlot ==
    /\ pc = "querying"
    /\ LET n == Len(queryLog)
           q == queryLog[n]
           address_item == addresses[i]
           coords == DictGet(coordinates, address_item.id)
       IN  \E models \in Orderings(MatchingRows(store, q.latitude, q.longitude, q.radius_km)) :
              LET sites == ConvertModels(models)
                  r == ItemOutcome(address_item, coords, "none", sites)
              IN  /\ results' = IF results = <<>> THEN <<r.value>>
                                 ELSE [results EXCEPT ![1] = r.value]
                  /\ coverage_by_operator' = r.acc
                  /\ queryLog' = [queryLog EXCEPT ![n].outcome = "ok",
                                                   ![n].sites = Range(sites)]
    /\ i' = i + 1
    /\ pc' = "resolving"
    /\ UNCHANGED <<addresses, store, tasks, completed, coordinates, returned,
                   raised, geocodeExc, critical>>
    /\ UNCHANGED <<cancelRequested, response, saveVars, distanceVars, lookupVars, loaderVars>>

\* find_nearby returns the converted rows, in the order the database chose
FindNearbyReturns ==
    /\ pc = "querying"
    /\ LET n == Len(queryLog)
           q == queryLog[n]
           address_item == addresses[i]
           coords == DictGet(coordinates, address_item.id)
       IN  \E models \in Orderings(MatchingRows(store, q.latitude, q.longitude, q.radius_km)) :
              LET sites == ConvertModels(models)
                  r == ItemOutcome(address_item, coords, "none", sites)
              IN  /\ results' = Append(results, r.value)
                  /\ coverage_by_operator' = r.acc
                  /\ queryLog' = [queryLog EXCEPT ![n].outcome = "ok",
                                                   ![n].sites = Range(sites)]
    /\ i' = i + 1
    /\ pc' = "resolving"
    /\ UNCHANGED <<addresses, store, tasks, completed, coordinates, returned,
                   raised, geocodeExc, critical>>
    /\ UNCHANGED <<cancelRequested, response, saveVars, distanceVars, lookupVars, loaderVars>>

\* FindNearbyRaises that runs the iteration again after a failed query, once
FindNearbyRaisesRetry(fault) ==
    /\ pc = "querying"
    /\ LET n == Len(queryLog)
           address_item == addresses[i]
           coords == DictGet(coordinates, address_item.id)
           r == ItemOutcome(address_item, coords, FindNearbyHandler(fault), <<>>)
       IN  /\ queryLog' = [queryLog EXCEPT ![n].outcome = FindNearbyHandler(fault)]
           /\ IF Cardinality({ m \in 1..n : queryLog[m].item = i }) < 2
              THEN UNCHANGED <<results, coverage_by_operator, i>>
              ELSE /\ results' = Append(results, r.value)
                   /\ coverage_by_operator' = r.acc
                   /\ i' = i + 1
    /\ pc' = "resolving"
    /\ UNCHANGED <<addresses, store, tasks, completed, coordinates, returned,
                   raised, geocodeExc, critical>>
    /\ UNCHANGED <<cancelRequested, response, saveVars, distanceVars, lookupVars, loaderVars>>

\* session.execute fails and find_nearby raises RepositoryError
FindNearbyRaises(fault) ==
    /\ pc = "querying"
    /\ LET n == Len(queryLog)
           address_item == addresses[i]
           coords == DictGet(coordinates, address_item.id)
           r == ItemOutcome(address_item, coords, FindNearbyHandler(fault), <<>>)
       IN  /\ results' = Append(results, r.value)
           /\ coverage_by_operator' = r.acc
           /\ queryLog' = [queryLog EXCEPT ![n].outcome = FindNearbyHandler(fault)]
    /\ i' = i + 1
    /\ pc' = "resolving"
    /\ UNCHANGED <<addresses, store, tasks, completed, coordinates, returned,
                   raised, geocodeExc, critical>>
    /\ UNCHANGED <<cancelRequested, response, saveVars, distanceVars, lookupVars, loaderVars>>

\* the loop is over: execute returns results
ExecuteReturns ==
    /\ pc = "resolving"
    /\ i > Len(addresses)
    /\ returned' = results
    /\ pc' = "done"
    /\ UNCHANGED <<addresses, store, tasks, completed, coordinates, i, results,
                   coverage_by_operator, queryLog, raised, geocodeExc, critical>>
    /\ UNCHANGED <<cancelRequested, response, saveVars, distanceVars, lookupVars, loaderVars>>

\* a statement of execute outside the per-item guard raises an Exception:
\* before the geocoding call or after the loop
OrchestrationFault ==
    /\ \/ pc = "start"
       \/ pc = "resolving" /\ i > Len(addresses)
    /\ LET h == ExecuteHandler("Exception", addresses)
       IN  /\ returned' = h.value
           /\ raised' = h.exc
    /\ critical' = "Exception"
    /\ pc' = "done"
    /\ UNCHANGED <<addresses, store, tasks, completed, coordinates, i, results,
                   coverage_by_operator, queryLog, geocodeExc>>
    /\ UNCHANGED <<cancelRequested, response, saveVars, distanceVars, lookupVars, loaderVars>>

Next ==
    \/ StartGeocoding
    \/ \E k \in 1..Cardinality(Ids) : LookupReturns(k)
    \/ \E k \in 1..Cardinality(Ids) : LookupRaises(k)
    \/ ProcessGathered
    \/ GeocodeAddressesReturns
    \/ \E exc \in GeocodeFaults : GeocodeAddressesRaises(exc)
    \/ ResolveItem
    \/ FindNearbyReturns
    \/ \E fault \in StoreFaults : FindNearbyRaises(fault)
    \/ ExecuteReturns
    \/ OrchestrationFault

Spec == Init /\ [][Next]_vars

(* ----------------------------- cancellation ---------------------------- *)
\* a lookup that was cancelled before it completed
CancelledValue == [kind |-> "cancelled", latitude |-> 0, longitude |-> 0]

\* IsException in which CancelledError derives from Exception
IsExceptionWithCancelled(exc) == TRUE

\* isinstance(exc, Exception): what every "except Exception" of the pipeline
\* catches. asyncio.CancelledError derives from BaseException only.
IsException(exc) == exc # "CancelledError"

\* the task running execute is cancelled while it awaits asyncio.gather:
\* gather cancels the lookups still running and CancelledError is raised at
\* the await, through geocode_addresses, _geocode_addresses_safe and execute
CancelDuringGather ==
    /\ pc = "gathering"
    /\ cancelRequested' = TRUE
    /\ IF IsException("CancelledError")
       THEN /\ tasks' = <<>>
            /\ completed' = <<>>
            /\ geocodeExc' = "GeocodingError"
            /\ coordinates' = GeocodeAddressesSafeHandler("GeocodingError").value
            /\ pc' = "resolving"
            /\ UNCHANGED <<raised, returned>>
       ELSE /\ tasks' = [k \in DOMAIN tasks |->
                            IF tasks[k].kind = "pending" THEN CancelledValue
                            ELSE tasks[k]]
            /\ raised' = "CancelledError"
            /\ pc' = "done"
            /\ UNCHANGED <<completed, geocodeExc, coordinates, returned>>
    /\ UNCHANGED <<addresses, store, i, results, coverage_by_operator, queryLog,
                   critical>>
    /\ UNCHANGED <<response, saveVars, distanceVars, lookupVars, loaderVars>>

\* the task running execute is cancelled while it awaits session.execute:
\* CancelledError is raised at the await, through find_nearby,
\* _find_coverage_for_location, _process_address_with_coords and execute
CancelDuringQuery ==
    /\ pc = "querying"
    /\ cancelRequested' = TRUE
    /\ IF IsException("CancelledError")
       THEN /\ results' = Append(results,
                    ItemOutcome(addresses[i], DictGet(coordinates, addresses[i].id),
                                FindNearbyHandler("CancelledError"), <<>>).value)
            /\ coverage_by_operator' =
                    ItemOutcome(addresses[i], DictGet(coordinates, addresses[i].id),
                                FindNearbyHandler("CancelledError"), <<>>).acc
            /\ queryLog' = [queryLog EXCEPT ![Len(queryLog)].outcome =
                                FindNearbyHandler("CancelledError")]
            /\ i' = i + 1
            /\ pc' = "resolving"
            /\ UNCHANGED raised
       ELSE /\ queryLog' = [queryLog EXCEPT ![Len(queryLog)].outcome = "cancelled"]
            /\ raised' = "CancelledError"
            /\ pc' = "done"
            /\ UNCHANGED <<results, coverage_by_operator, i>>
    /\ UNCHANGED <<addresses, store, tasks, completed, coordinates, returned,
                   geocodeExc, critical>>
    /\ UNCHANGED <<response, saveVars, distanceVars, lookupVars, loaderVars>>

CancelNext ==
    \/ Next
    \/ CancelDuringGather
    \/ CancelDuringQuery

CancelSpec == Init /\ [][CancelNext]_vars

(* -------------------------------- route -------------------------------- *)
HTTP_400_BAD_REQUEST == 400
HTTP_200_OK == 200
HTTP_503_SERVICE_UNAVAILABLE == 503
HTTP_500_INTERNAL_SERVER_ERROR == 500

\* FindNearbySitesRoute that hands an empty list on to the use case
FindNearbySitesRouteNoValidation ==
    /\ pc = "request"
    /\ pc' = "start"
    /\ UNCHANGED response
    /\ UNCHANGED <<addresses, store, tasks, completed, coordinates, i, results,
                   coverage_by_operator, queryLog, returned, raised, geocodeExc,
                   critical, cancelRequested>>
    /\ UNCHANGED <<saveVars, distanceVars, lookupVars, loaderVars>>

\* find_nearby_sites_by_address up to the await of use_case.execute
FindNearbySitesRoute ==
    /\ pc = "request"
    /\ IF Len(addresses) = 0
       THEN /\ response' = [status |-> HTTP_400_BAD_REQUEST,
                            detail |-> "Empty address list received",
                            body |-> <<>>]
            /\ pc' = "responded"
       ELSE /\ pc' = "start"
            /\ UNCHANGED response
    /\ UNCHANGED <<addresses, store, tasks, completed, coordinates, i, results,
                   coverage_by_operator, queryLog, returned, raised, geocodeExc,
                   critical, cancelRequested>>
    /\ UNCHANGED <<saveVars, distanceVars, lookupVars, loaderVars>>

\* the exception handlers of the application: the first registered class
\* the exception is an instance of decides the answer
ExceptionHandlerResponse(exc) ==
    CASE exc = "RepositoryError" ->
           [status |-> HTTP_503_SERVICE_UNAVAILABLE,
            detail |-> "Database service temporarily unavailable", body |-> <<>>]
      [] exc = "GeocodingError" ->
           [status |-> HTTP_503_SERVICE_UNAVAILABLE,
            detail |-> "Geocoding service temporarily unavailable", body |-> <<>>]
      [] OTHER ->
           [status |-> HTTP_500_INTERNAL_SERVER_ERROR,
            detail |-> "Internal server error", body |-> <<>>]

\* execute has ended: the route answers with the results it returned, or an
\* exception handler answers for the exception it raised
RouteReturns ==
    /\ pc = "done"
    /\ response' = IF raised = "none"
                   THEN [status |-> HTTP_200_OK, detail |-> "none", body |-> returned]
                   ELSE ExceptionHandlerResponse(raised)
    /\ pc' = "responded"
    /\ UNCHANGED <<addresses, store, tasks, completed, coordinates, i, results,
                   coverage_by_operator, queryLog, returned, raised, geocodeExc,
                   critical, cancelRequested>>
    /\ UNCHANGED <<saveVars, distanceVars, lookupVars, loaderVars>>

RouteInit ==
    /\ NewExecute("request")
    /\ response = NoResponse
    /\ IdleSave
    /\ IdleDistance
    /\ IdleLookup
    /\ IdleLoader

RouteNext ==
    \/ FindNearbySitesRoute
    \/ Next
    \/ RouteReturns

RouteSpec == RouteInit /\ [][RouteNext]_vars

(* ------------------------- distance measurement ----------------------- *)
Points == { [lat |-> la, lon |-> lo] : la \in (0 - MaxCoord)..MaxCoord,
                                       lo \in (0 - MaxCoord)..MaxCoord }

DistanceInit ==
    /\ IdleExecute
    /\ response = NoResponse
    /\ IdleSave
    /\ IdleLookup
    /\ IdleLoader
    /\ pointA \in Points
    /\ pointB \in Points
    /\ measured = NotMeasured

\* calculate_distance_km is called on the two points, both ways round, and
\* on each point with itself
MeasureDistances ==
    /\ ~measured.done
    /\ measured' =
          [ab |-> calculate_distance_km(pointA.lat, pointA.lon, pointB.lat, pointB.lon),
           ba |-> calculate_distance_km(pointB.lat, pointB.lon, pointA.lat, pointA.lon),
           aa |-> calculate_distance_km(pointA.lat, pointA.lon, pointA.lat, pointA.lon),
           bb |-> calculate_distance_km(pointB.lat, pointB.lon, pointB.lat, pointB.lon),
           done |-> TRUE]
    /\ UNCHANGED <<pointA, pointB>>
    /\ UNCHANGED <<execVars, response, saveVars, lookupVars, loaderVars>>

DistanceNext == MeasureDistances

DistanceSpec == DistanceInit /\ [][DistanceNext]_vars

(* --------------------------- one address lookup ------------------------ *)
\* coordinate lists of up to three components
CoordinateLists == SeqsUpTo((0 - MaxCoord)..MaxCoord, 3)

\* the geometry member of a feature: a coordinate list, no coordinates, null
Geometries ==
    { [coordinates |-> c] : c \in CoordinateLists } \cup { [type |-> "Point"], JsonNull }

\* the properties member of a feature: a score in hundredths, none, null
PropertiesValues == { [score |-> 0], [score |-> 95], [label |-> "x"], JsonNull }

\* the features the provider may answer with
Features ==
    { [geometry |-> g, properties |-> q] : g \in Geometries, q \in PropertiesValues }
        \cup { [geometry |-> g] : g \in Geometries }
        \cup { [properties |-> q] : q \in PropertiesValues }

\* every way the request of one lookup may end
ProviderAnswers ==
    { [kind |-> k] : k \in HttpxErrors \cup {"Exception", "invalid_json", "json"} }
        \cup { [kind |-> "json", features |-> << >>] }
        \cup { [kind |-> "json", features |-> <<f>>] : f \in Features }
        \cup { [kind |-> "json", features |-> <<f, [geometry |-> [coordinates |-> <<1, 1>>]]>>] :
                 f \in { [properties |-> [score |-> 95]],
                         [geometry |-> [coordinates |-> <<0, 0>>]] } }

LookupInit ==
    /\ IdleExecute
    /\ response = NoResponse
    /\ IdleSave
    /\ IdleDistance
    /\ IdleLoader
    /\ providerAnswer \in ProviderAnswers
    /\ lookup = PendingValue

\* _geocode_single_address runs to its end
GeocodeSingleAddressCall ==
    /\ lookup.kind = "pending"
    /\ lookup' = GeocodeSingleAddress(providerAnswer)
    /\ UNCHANGED providerAnswer
    /\ UNCHANGED <<execVars, response, saveVars, distanceVars, loaderVars>>

LookupNext == GeocodeSingleAddressCall

LookupSpec == LookupInit /\ [][LookupNext]_vars

(* ------------------------------- fairness ------------------------------ *)
\* the event loop runs execute whenever it can take a step, and every lookup
\* and every store query completes
\* the tables the fair runs start from: the empty one, and one holding a row
\* that converts to a MobileSite and a row that does not, both at one point
FairStores == { {}, { m \in RowPool : m.x = 0 /\ m.y = 0 } } \cap Stores

FairInit ==
    /\ Init
    /\ store \in FairStores

FairSpec == FairInit /\ [][Next]_vars /\ WF_vars(Next)

(* ------------------------ MobileSite.__post_init__ --------------------- *)
\* Python objects handed to the constructor, with their class
PyOperator(value) == [type |-> "Operator", value |-> value]
PyStr(value) == [type |-> "str", value |-> value]
PyLocation(x, y) == [type |-> "Location", x |-> x, y |-> y]
PyCoverage(g2, g3, g4) ==
    [type |-> "Coverage", has_2g |-> g2, has_3g |-> g3, has_4g |-> g4]

IsInstance(obj, cls) == obj.type = cls

\* MobileSitePostInit without the check of the operator
MobileSitePostInitNoOperatorCheck(operator, location, coverage) ==
    IF ~IsInstance(location, "Location") THEN "ValueError"
    ELSE IF ~IsInstance(coverage, "Coverage") THEN "ValueError"
    ELSE "none"

\* __post_init__: what it raises, "none" if nothing
MobileSitePostInit(operator, location, coverage) ==
    IF ~IsInstance(operator, "Operator") THEN "ValueError"
    ELSE IF ~IsInstance(location, "Location") THEN "ValueError"
    ELSE IF ~IsInstance(coverage, "Coverage") THEN "ValueError"
    ELSE "none"

\* the site a failed construction leaves behind: none
NoSite == MobileSite("none", Location(0, 0), Coverage(FALSE, FALSE, FALSE))

\* MobileSite(operator=..., location=..., coverage=...)
NewMobileSite(args) ==
    IF MobileSitePostInit(args.operator, args.location, args.coverage) = "none"
    THEN [exc |-> "none",
          site |-> MobileSite(args.operator.value,
                              Location(args.location.x, args.location.y),
                              Coverage(args.coverage.has_2g, args.coverage.has_3g,
                                       args.coverage.has_4g))]
    ELSE [exc |-> MobileSitePostInit(args.operator, args.location, args.coverage),
          site |-> NoSite]

OperatorArgs == { PyOperator("Orange"), PyOperator("Free"), PyStr("Orange") }
LocationArgs == { PyLocation(0, 0), PyLocation(2, 1), PyStr("invalid") }
CoverageArgs == { PyCoverage(TRUE, TRUE, FALSE), PyStr("invalid") }

CtorArgs ==
    { [operator |-> o, location |-> l, coverage |-> c] :
        o \in OperatorArgs, l \in LocationArgs, c \in CoverageArgs }

CtorBatches == SeqsUpTo(CtorArgs, MaxBatch)

(* ------------------------------ save_many ------------------------------ *)
\* the sites the caller built and hands to save_many
RECURSIVE BuiltSites(_)
BuiltSites(log) ==
    IF log = <<>> THEN <<>>
    ELSE IF Head(log).exc = "none"
         THEN <<Head(log).site>> \o BuiltSites(Tail(log))
         ELSE BuiltSites(Tail(log))

\* MobileSiteModel(operator=site.operator.value, x=..., y=..., has_2g=...)
ToModel(site) ==
    [operator |-> site.operator, x |-> site.location.x, y |-> site.location.y,
     has_2g |-> site.coverage.has_2g, has_3g |-> site.coverage.has_3g,
     has_4g |-> site.coverage.has_4g]

\* [self._to_entity(model) for model in models]: the first failure ends it
RECURSIVE ToEntities(_)
ToEntities(models) ==
    IF models = <<>> THEN [exc |-> "none", value |-> <<>>]
    ELSE IF ToEntity(Head(models)).exc # "none"
         THEN [exc |-> ToEntity(Head(models)).exc, value |-> <<>>]
         ELSE [exc |-> ToEntities(Tail(models)).exc,
               value |-> <<ToEntity(Head(models)).site>> \o ToEntities(Tail(models)).value]

\* session.rollback(): the pending models leave the session
Rollback(pending) == <<>>

\* SaveManyHandler that raises without rolling the session back
SaveManyHandlerNoRollback(exc, pending) ==
    [exc |-> "RepositoryError", session |-> pending]

\* the handlers of save_many: roll back, raise RepositoryError
SaveManyHandler(exc, pending) ==
    [exc |-> "RepositoryError", session |-> Rollback(pending)]

\* what the table holds before save_many is called
InitialTables ==
    { <<>>,
      << [operator |-> "Orange", x |-> 0, y |-> 0,
          has_2g |-> TRUE, has_3g |-> TRUE, has_4g |-> FALSE] >> }

SaveInit ==
    /\ IdleExecute
    /\ response = NoResponse
    /\ IdleDistance
    /\ IdleLookup
    /\ IdleLoader
    /\ ctorArgs \in CtorBatches
    /\ built = <<>>
    /\ session = <<>>
    /\ table \in InitialTables
    /\ tableAtCall = table
    /\ savePc = "constructing"
    /\ saveReturned = <<>>
    /\ saveRaised = "none"

\* the caller constructs the next MobileSite
ConstructNext ==
    /\ savePc = "constructing"
    /\ Len(built) < Len(ctorArgs)
    /\ built' = Append(built, NewMobileSite(ctorArgs[Len(built) + 1]))
    /\ UNCHANGED <<ctorArgs, session, table, tableAtCall, savePc, saveReturned,
                   saveRaised>>
    /\ UNCHANGED <<execVars, response, distanceVars, lookupVars, loaderVars>>

\* save_many up to the await of session.commit()
SaveManyAddAll ==
    /\ savePc = "constructing"
    /\ Len(built) = Len(ctorArgs)
    /\ session' = [k \in 1..Len(BuiltSites(built)) |-> ToModel(BuiltSites(built)[k])]
    /\ tableAtCall' = table
    /\ savePc' = "committing"
    /\ UNCHANGED <<ctorArgs, built, table, saveReturned, saveRaised>>
    /\ UNCHANGED <<execVars, response, distanceVars, lookupVars, loaderVars>>

\* the commit succeeds and save_many converts the models back
CommitReturns ==
    /\ savePc = "committing"
    /\ table' = table \o session
    /\ IF ToEntities(session).exc = "none"
       THEN /\ saveReturned' = ToEntities(session).value
            /\ saveRaised' = "none"
            /\ session' = <<>>
       ELSE /\ saveReturned' = <<>>
            /\ saveRaised' = SaveManyHandler(ToEntities(session).exc, <<>>).exc
            /\ session' = SaveManyHandler(ToEntities(session).exc, <<>>).session
    /\ savePc' = "done"
    /\ UNCHANGED <<ctorArgs, built, tableAtCall>>
    /\ UNCHANGED <<execVars, response, distanceVars, lookupVars, loaderVars>>

\* the commit fails: nothing is written, the handler rolls back and raises
CommitRaises(fault) ==
    /\ savePc = "committing"
    /\ saveRaised' = SaveManyHandler(fault, session).exc
    /\ session' = SaveManyHandler(fault, session).session
    /\ savePc' = "done"
    /\ UNCHANGED <<ctorArgs, built, table, tableAtCall, saveReturned>>
    /\ UNCHANGED <<execVars, response, distanceVars, lookupVars, loaderVars>>

SaveNext ==
    \/ ConstructNext
    \/ SaveManyAddAll
    \/ CommitReturns
    \/ \E fault \in StoreFaults : CommitRaises(fault)

SaveSpec == SaveInit /\ [][SaveNext]_vars

(* ------------------------------ CSV loader ----------------------------- *)
\* str.strip() on the cell texts of the model
Strip(s) ==
    CASE s = " " -> ""
      [] s = " Orange " -> "Orange"
      [] OTHER -> s

\* the texts float() and int() accept, with their value
NumberTexts == {"0", "1", "2", "7", "66", "68"}

NumberOf(s) ==
    CASE s = "0" -> 0
      [] s = "1" -> 1
      [] s = "2" -> 2
      [] s = "7" -> 7
      [] s = "66" -> 66
      [] s = "68" -> 68

\* lamber93_to_gps(x, y): the transformer moves the false origin of the
\* projection to the origin of the grid and answers (longitude, latitude)
Lamber93ToGps(x, y) == <<x - 7, y - 66>>

\* operator_map of _parse_row
OperatorMap == [name \in Operator |-> PyOperator(name)]

\* Location(**kwargs): the dataclass takes the keywords x and y only
NewLocation(kwargs) ==
    IF DOMAIN kwargs = {"x", "y"}
    THEN [exc |-> "none", value |-> PyLocation(kwargs.x, kwargs.y)]
    ELSE [exc |-> "TypeError", value |-> PyStr("none")]

\* the operator of a row: what reading it raises, and the member
RowOperator(row) ==
    IF ~HasAttr(row, "Operateur")
    THEN [exc |-> "KeyError", value |-> PyStr("none")]
    ELSE IF Strip(row["Operateur"]) \notin DOMAIN OperatorMap
    THEN [exc |-> "ValueError", value |-> PyStr("none")]
    ELSE [exc |-> "none", value |-> OperatorMap[Strip(row["Operateur"])]]

\* the GPS coordinates of a row, given or converted from Lambert 93
RowCoordinates(row) ==
    IF HasAttr(row, "longitude") /\ HasAttr(row, "latitude")
    THEN IF row["longitude"] \in NumberTexts /\ row["latitude"] \in NumberTexts
         THEN [exc |-> "none", longitude |-> NumberOf(row["longitude"]),
               latitude |-> NumberOf(row["latitude"])]
         ELSE [exc |-> "ValueError", longitude |-> 0, latitude |-> 0]
    ELSE IF ~HasAttr(row, "x") \/ ~HasAttr(row, "y")
    THEN [exc |-> "KeyError", longitude |-> 0, latitude |-> 0]
    ELSE IF row["x"] \in NumberTexts /\ row["y"] \in NumberTexts
    THEN [exc |-> "none",
          longitude |-> Lamber93ToGps(NumberOf(row["x"]), NumberOf(row["y"]))[1],
          latitude |-> Lamber93ToGps(NumberOf(row["x"]), NumberOf(row["y"]))[2]]
    ELSE [exc |-> "ValueError", longitude |-> 0, latitude |-> 0]

\* bool(int(row["2G"])) and so on; KeyError and ValueError become ValueError
RowCoverage(row) ==
    IF \A t \in {"2G", "3G", "4G"} : HasAttr(row, t) /\ row[t] \in NumberTexts
    THEN [exc |-> "none",
          value |-> PyCoverage(NumberOf(row["2G"]) # 0, NumberOf(row["3G"]) # 0,
                               NumberOf(row["4G"]) # 0)]
    ELSE [exc |-> "ValueError", value |-> PyStr("none")]

\* the end of _parse_row: the Location, the Coverage and the MobileSite
BuildSite(operator, longitude, latitude, coverage) ==
    IF NewLocation([longitude |-> longitude, latitude |-> latitude]).exc # "none"
    THEN [exc |-> NewLocation([longitude |-> longitude, latitude |-> latitude]).exc,
          site |-> NoSite]
    ELSE NewMobileSite(
             [operator |-> operator,
              location |-> NewLocation([longitude |-> longitude, latitude |-> latitude]).value,
              coverage |-> coverage])

\* _parse_row: its handler logs the exception and raises it again
ParseRow(row) ==
    IF RowOperator(row).exc # "none"
    THEN [exc |-> RowOperator(row).exc, site |-> NoSite]
    ELSE IF RowCoordinates(row).exc # "none"
    THEN [exc |-> RowCoordinates(row).exc, site |-> NoSite]
    ELSE IF RowCoverage(row).exc # "none"
    THEN [exc |-> RowCoverage(row).exc, site |-> NoSite]
    ELSE BuildSite(RowOperator(row).value, RowCoordinates(row).longitude,
                   RowCoordinates(row).latitude, RowCoverage(row).value)

\* not row or all(not value or not str(value).strip() for value in row.values())
IsEmptyRow(row) == \A f \in DOMAIN row : Strip(row[f]) = ""

\* a row that was skipped without being parsed
SkippedRow == [exc |-> "skipped", site |-> NoSite]

\* the rows the files of the model are made of
CsvRowPool ==
    { ("Operateur" :> "SFR" @@ "longitude" :> "2" @@ "latitude" :> "1"
          @@ "2G" :> "1" @@ "3G" :> "0" @@ "4G" :> "1"),
      ("Operateur" :> "Orange" @@ "x" :> "7" @@ "y" :> "68"
          @@ "2G" :> "1" @@ "3G" :> "1" @@ "4G" :> "0"),
      ("Operateur" :> "InvalidOperator" @@ "x" :> "7" @@ "y" :> "68"
          @@ "2G" :> "1" @@ "3G" :> "1" @@ "4G" :> "0"),
      ("Operateur" :> "Orange" @@ "x" :> "invalid" @@ "y" :> "68"
          @@ "2G" :> "1" @@ "3G" :> "1" @@ "4G" :> "0"),
      ("Operateur" :> "Orange" @@ "x" :> "7" @@ "y" :> "68"
          @@ "2G" :> "invalid" @@ "3G" :> "1" @@ "4G" :> "0"),
      ("Operateur" :> "Orange" @@ "x" :> "7" @@ "y" :> "68"),
      ("Operateur" :> "" @@ "x" :> " " @@ "y" :> ""
          @@ "2G" :> "" @@ "3G" :> "" @@ "4G" :> "") }

CsvFiles == SeqsUpTo(CsvRowPool, MaxBatch)

LoaderInit ==
    /\ IdleExecute
    /\ response = NoResponse
    /\ IdleSave
    /\ IdleDistance
    /\ IdleLookup
    /\ csvRows \in CsvFiles
    /\ loadPc = "opening"
    /\ row_count = 0
    /\ processed_count = 0
    /\ loadedSites = <<>>
    /\ parsed = <<>>
    /\ savedSites = <<>>
    /\ loadResult = NoLoadResult

\* open(csv_file_path) succeeds
LoadOpens ==
    /\ loadPc = "opening"
    /\ loadPc' = "reading"
    /\ UNCHANGED <<csvRows, row_count, processed_count, loadedSites, parsed,
                   savedSites, loadResult>>
    /\ UNCHANGED <<execVars, response, saveVars, distanceVars, lookupVars>>

\* open(csv_file_path) fails: the handler logs and raises again
LoadFileNotFound ==
    /\ loadPc = "opening"
    /\ loadResult' = [exc |-> "FileNotFoundError", value |-> 0 - 1]
    /\ loadPc' = "done"
    /\ UNCHANGED <<csvRows, row_count, processed_count, loadedSites, parsed,
                   savedSites>>
    /\ UNCHANGED <<execVars, response, saveVars, distanceVars, lookupVars>>

\* one iteration of the loop over the rows: an empty row is skipped, a row
\* that fails to parse is logged and skipped, the others are collected
LoadRow ==
    /\ loadPc = "reading"
    /\ row_count < Len(csvRows)
    /\ row_count' = row_count + 1
    /\ IF IsEmptyRow(csvRows[row_count + 1])
       THEN /\ parsed' = Append(parsed, SkippedRow)
            /\ UNCHANGED <<loadedSites, processed_count>>
       ELSE /\ parsed' = Append(parsed, ParseRow(csvRows[row_count + 1]))
            /\ IF ParseRow(csvRows[row_count + 1]).exc = "none"
               THEN /\ loadedSites' = Append(loadedSites,
                                             ParseRow(csvRows[row_count + 1]).site)
                    /\ processed_count' = processed_count + 1
               ELSE UNCHANGED <<loadedSites, processed_count>>
    /\ UNCHANGED <<csvRows, loadPc, savedSites, loadResult>>
    /\ UNCHANGED <<execVars, response, saveVars, distanceVars, lookupVars>>

\* after the loop: save_many if any site was collected, then return their
\* number; an exception of save_many is logged and raised again
LoadFinishes ==
    /\ loadPc = "reading"
    /\ row_count = Len(csvRows)
    /\ IF loadedSites # <<>>
       THEN \E outcome \in {"none"} \cup StoreFaults :
               IF outcome = "none"
               THEN /\ savedSites' = loadedSites
                    /\ loadResult' = [exc |-> "none", value |-> Len(loadedSites)]
               ELSE /\ savedSites' = <<>>
                    /\ loadResult' = [exc |-> SaveManyHandler(outcome, <<>>).exc,
                                      value |-> 0 - 1]
       ELSE /\ savedSites' = <<>>
            /\ loadResult' = [exc |-> "none", value |-> Len(loadedSites)]
    /\ loadPc' = "done"
    /\ UNCHANGED <<csvRows, row_count, processed_count, loadedSites, parsed>>
    /\ UNCHANGED <<execVars, response, saveVars, distanceVars, lookupVars>>

LoaderNext ==
    \/ LoadOpens
    \/ LoadFileNotFound
    \/ LoadRow
    \/ LoadFinishes

LoaderSpec == LoaderInit /\ [][LoaderNext]_vars

(* ------------------------- helpers of the claims ----------------------- *)
OperatorFields == {"orange", "SFR", "bouygues", "free"}

AllFalse(item) ==
    \A f \in OperatorFields :
        ~item[f].has_2g /\ ~item[f].has_3g /\ ~item[f].has_4g

AllFalseList(list) == \A j \in 1..Len(list) : AllFalse(list[j])

\* the completed find_nearby calls issued for item j
QueriesOf(j) == { n \in 1..Len(queryLog) : queryLog[n].item = j }

\* the lookup of the dict entry that holds id, 0 if there is none
TaskOf(id) ==
    LET d == AddressesDict(addresses)
    IN  IF \E k \in 1..Len(d) : d[k].id = id
        THEN CHOOSE k \in 1..Len(d) : d[k].id = id
        ELSE 0

\* execute ran through geocoding and the loop without a whole-call fault
CleanRun == pc = "done" /\ geocodeExc = "none" /\ critical = "none"

(* C1: execute returns a list as long as the input whose i-th item carries *)
(* the id of the i-th input item, whatever the geocoder and the store did. *)
C1_SameLengthSameIds ==
    pc = "done" =>
        /\ Len(returned) = Len(addresses)
        /\ \A j \in 1..Len(addresses) : returned[j].id = addresses[j].id

C1_Witness ==
    /\ pc = "done"
    /\ critical = "none"
    /\ Len(addresses) >= 2
    /\ \E j \in 1..Len(addresses) : ~Truthy(coordinates[addresses[j].id])
    /\ \E n \in 1..Len(queryLog) : queryLog[n].outcome = "RepositoryError"

(* C2: no exception raised by the geocoding service or by the repository   *)
(* or the coverage lookup leaves execute; execute returns a list.          *)
C2_NothingEscapes ==
    /\ raised = "none"
    /\ (pc = "done" => Len(returned) = Len(addresses))

C2_Witness ==
    /\ pc = "done"
    /\ raised = "none"
    /\ \/ geocodeExc = "Exception"
       \/ /\ \E n \in 1..Len(queryLog) : queryLog[n].outcome = "RepositoryError"
          /\ \E n \in 1..Len(queryLog) :
                queryLog[n].outcome = "ok" /\ queryLog[n].sites # {}

(* C3: an item whose id is absent from the coordinate map gets an all-false *)
(* result for the four operators, whatever the store contains.              *)
C3_NoCoordinateAllFalse ==
    /\ \A j \in 1..Len(results) :
          ~Truthy(coordinates[addresses[j].id]) => AllFalse(results[j])
    /\ pc = "done" =>
          \A j \in 1..Len(returned) :
              ~Truthy(coordinates[addresses[j].id]) => AllFalse(returned[j])

C3_Witness ==
    /\ CleanRun
    /\ store # {}
    /\ \E j \in 1..Len(addresses) :
          /\ ~Truthy(coordinates[addresses[j].id])
          /\ addresses[j].address = "paris"
          /\ MatchingRows(store, 0, 0, SEARCH_RADIUS_KM) # {}

C5_GeocodeFailureDegradesAll ==
    geocodeExc # "none" =>
        /\ \A id \in Ids : ~Truthy(coordinates[id])
        /\ queryLog = <<>>
        /\ AllFalseList(results)
        /\ pc = "done" => (Len(returned) = Len(addresses) /\ AllFalseList(returned))

C5_Witness ==
    /\ pc = "done"
    /\ geocodeExc = "GeocodingError"
    /\ Len(returned) >= 2
    /\ \E j \in 1..Len(addresses) : addresses[j].address = "paris"
    /\ MatchingRows(store, 0, 0, SEARCH_RADIUS_KM) # {}

(* C6: for a geocoded point and the MobileSite entities find_nearby         *)
(* returned, result[O].has_T holds exactly when some returned site has      *)
(* operator O, supports T and lies within TECHNOLOGY_RADII[T] of the point. *)
Technologies == {"2G", "3G", "4G"}

FieldOf(operator_key) == IF operator_key = "sfr" THEN "SFR" ELSE operator_key

Supports(coverage, t) ==
    CASE t = "2G" -> coverage.has_2g
      [] t = "3G" -> coverage.has_3g
      [] t = "4G" -> coverage.has_4g

\* distance from the point of query q to a site, latitude being Location.y
\* and longitude Location.x
SiteDistanceKm(q, site) ==
    calculate_distance_km(q.latitude, q.longitude, site.location.y, site.location.x)

Covers(q, site, operator_key, t) ==
    /\ Lower(site.operator) = operator_key
    /\ Supports(site.coverage, t)
    /\ SiteDistanceKm(q, site) <= TECHNOLOGY_RADII[t]

C6_AggregationMatchesSites ==
    \A n \in 1..Len(queryLog) :
        LET q == queryLog[n]
        IN  q.outcome = "ok" =>
               \A o \in OperatorKeys, t \in Technologies :
                   Supports(results[q.item][FieldOf(o)], t)
                       <=> \E site \in q.sites : Covers(q, site, o, t)

(* C7: a returned site farther than the radius of T never sets has_T for    *)
(* its operator, and still sets every technology it supports whose radius   *)
(* it is within, the distance equal to the radius included.                 *)
C7_RadiusPerTechnology ==
    \A n \in 1..Len(queryLog) :
        LET q == queryLog[n]
        IN  q.outcome = "ok" =>
               \A site \in q.sites, t \in Technologies :
                   LET o == Lower(site.operator)
                       flag == Supports(results[q.item][FieldOf(o)], t)
                   IN  Supports(site.coverage, t) =>
                          /\ SiteDistanceKm(q, site) <= TECHNOLOGY_RADII[t] => flag
                          /\ (/\ SiteDistanceKm(q, site) > TECHNOLOGY_RADII[t]
                              /\ ~\E other \in q.sites : Covers(q, other, o, t))
                                => ~flag

(* C8: the map geocode_addresses builds holds exactly the ids whose own     *)
(* lookup returned coordinates, each with the value of its own lookup,      *)
(* whatever the order in which the lookups completed; a lookup that         *)
(* returned None or raised only leaves its own id out.                      *)
C8_MapOfOwnLookups ==
    pc = "gathered" =>
        /\ geocodeExc = "none"
        /\ \A id \in Ids :
              LET k == TaskOf(id)
              IN  /\ Truthy(coordinates[id]) <=> (k # 0 /\ tasks[k].kind = "dict")
                  /\ Truthy(coordinates[id]) =>
                        coordinates[id] = GeocodeSingleAddress(
                            ProviderResponse(AddressesDict(addresses)[k].address))

C8_Witness ==
    /\ pc = "gathered"
    /\ completed = <<2, 1>>
    /\ tasks[1].kind = "dict"
    /\ tasks[2].kind = "Exception"
    /\ Truthy(coordinates[AddressesDict(addresses)[1].id])

(* C9 as claimed: every item, also one that shares its id with another     *)
(* item, is resolved from the geocoding result of its own address text.    *)
OwnLookup(j) == GeocodeSingleAddress(ProviderResponse(addresses[j].address))

C9_ResolvedFromOwnAddress ==
    CleanRun =>
        \A j \in 1..Len(addresses) :
            Truthy(coordinates[addresses[j].id]) =>
                /\ Truthy(OwnLookup(j))
                /\ \E n \in QueriesOf(j) :
                      /\ queryLog[n].latitude = OwnLookup(j).latitude
                      /\ queryLog[n].longitude = OwnLookup(j).longitude

(* C9 as amended: execute produces one entry per item, carrying the item's *)
(* id; an item whose id has a coordinate is resolved through one store     *)
(* query of its own, centred on the coordinate geocoded from the address   *)
(* text of the last input item with that id.                                *)
LastWithId(id) ==
    CHOOSE j \in 1..Len(addresses) :
        /\ addresses[j].id = id
        /\ \A k \in 1..Len(addresses) : addresses[k].id = id => k <= j

LastLookup(j) == OwnLookup(LastWithId(addresses[j].id))

C9_ResolvedFromLastAddressOfId ==
    CleanRun =>
        /\ Len(returned) = Len(addresses)
        /\ \A j \in 1..Len(addresses) :
              /\ returned[j].id = addresses[j].id
              /\ Truthy(coordinates[addresses[j].id]) =>
                    /\ Truthy(LastLookup(j))
                    /\ Cardinality(QueriesOf(j)) = 1
                    /\ \A n \in QueriesOf(j) :
                          /\ queryLog[n].latitude = LastLookup(j).latitude
                          /\ queryLog[n].longitude = LastLookup(j).longitude
              /\ ~Truthy(coordinates[addresses[j].id]) => QueriesOf(j) = {}

C9_Witness ==
    /\ CleanRun
    /\ \E j, k \in 1..Len(addresses) :
          /\ j < k
          /\ addresses[j].id = addresses[k].id
          /\ addresses[j].address = "paris"
          /\ addresses[k].address = "lyon"
          /\ QueriesOf(j) # {}
          /\ QueriesOf(k) # {}

(* C10: two coverage lookups for the same point against the unchanged      *)
(* store give the same result for every operator and technology.           *)
CoverageOf(item) == [f \in OperatorFields |-> item[f]]

C12_FindNearbyNeverTruncates ==
    \A n \in 1..Len(queryLog) :
        queryLog[n].outcome = "ok" =>
            \A m \in MatchingRows(store, queryLog[n].latitude,
                                  queryLog[n].longitude, queryLog[n].radius_km) :
                \E s \in queryLog[n].sites :
                    /\ s.location.x = m.x
                    /\ s.location.y = m.y
                    /\ s.coverage.has_2g = m.has_2g
                    /\ s.coverage.has_3g = m.has_3g
                    /\ s.coverage.has_4g = m.has_4g
                    /\ s.operator = m.operator

\* C13: once the task running execute has been cancelled, CancelledError has
\* left execute, no result list was returned, no lookup is still running and
\* no store query is pending; the cancellation itself turns every lookup in
\* flight into a cancelled one, and no store query is started afterwards.
C13_CancellationPropagates ==
    /\ [](cancelRequested =>
            /\ raised = "CancelledError"
            /\ pc = "done"
            /\ returned = <<>>
            /\ \A k \in DOMAIN tasks : tasks[k].kind # "pending"
            /\ \A n \in DOMAIN queryLog : queryLog[n].outcome # "pending")
    /\ [][(~cancelRequested /\ cancelRequested') =>
            \A k \in DOMAIN tasks :
                tasks[k].kind = "pending" =>
                    (k \in DOMAIN tasks' /\ tasks'[k].kind = "cancelled")]_vars
    /\ [][cancelRequested => Len(queryLog') = Len(queryLog)]_vars

\* cancelled while one lookup had completed and another was still running
C13_Witness ==
    /\ cancelRequested
    /\ \E k \in DOMAIN tasks : tasks[k].kind = "cancelled"
    /\ \E k \in DOMAIN tasks : tasks[k].kind = "dict"

\* C14: when every lookup and every store query completes, execute
\* eventually returns, without raising, a list holding one result for every
\* input item, in order and under the item's id; until then it can always
\* take a step.
C14_EveryItemGetsAResult ==
    /\ <>(/\ pc = "done"
          /\ raised = "none"
          /\ Len(returned) = Len(addresses)
          /\ \A j \in 1..Len(addresses) : returned[j].id = addresses[j].id)
    /\ [](pc # "done" => ENABLED Next)

\* a run that ended with one item that was never geocoded and one whose
\* store query failed
C14_Witness ==
    /\ pc = "done"
    /\ raised = "none"
    /\ critical = "none"
    /\ geocodeExc = "none"
    /\ Len(returned) = 2
    /\ Len(queryLog) = 1
    /\ queryLog[1].outcome = "RepositoryError"

\* C15: MobileSite(...) raises ValueError when its operator is not a member
\* of Operator, when its location is not a Location or when its coverage is
\* not a Coverage; every MobileSite that was built, saved or returned has one
\* of the four operators.
C15_MobileSiteValidated ==
    /\ \A k \in 1..Len(built) :
          /\ (\/ ctorArgs[k].operator.type # "Operator"
              \/ ctorArgs[k].location.type # "Location"
              \/ ctorArgs[k].coverage.type # "Coverage") => built[k].exc = "ValueError"
          /\ built[k].exc = "none" =>
                built[k].site.operator \in {"Orange", "SFR", "Bouygues", "Free"}
    /\ \A k \in 1..Len(saveReturned) :
          saveReturned[k].operator \in {"Orange", "SFR", "Bouygues", "Free"}

\* one construction refused for its location alone, and one that succeeded
C15_Witness ==
    /\ Len(built) = 2
    /\ ctorArgs[1].operator.type = "Operator"
    /\ ctorArgs[1].location.type = "str"
    /\ ctorArgs[1].coverage.type = "Coverage"
    /\ built[1].exc = "ValueError"
    /\ built[2].exc = "none"

\* C16: a POST of an empty address list is answered 400 "Empty address list
\* received" and execute is never entered for it: no lookup is started and no
\* store query is issued; no other request is answered 400.
C16_EmptyListRejected ==
    /\ addresses = <<>> =>
          /\ pc \in {"request", "responded"}
          /\ tasks = <<>>
          /\ queryLog = <<>>
          /\ returned = <<>>
          /\ pc = "responded" =>
                /\ response.status = 400
                /\ response.detail = "Empty address list received"
    /\ response.status = 400 => addresses = <<>>

\* the empty request has been answered
C16_Witness ==
    /\ addresses = <<>>
    /\ pc = "responded"
    /\ response.status = 400

\* C17: calculate_distance_km of a point and itself is 0, and the distance
\* of two points is the same whichever of them comes first.
C17_DistanceZeroAndSymmetric ==
    measured.done =>
        /\ measured.aa = 0
        /\ measured.bb = 0
        /\ measured.ab = measured.ba

\* two different points, the first with different latitude and longitude
C17_Witness ==
    /\ measured.done
    /\ pointA # pointB
    /\ pointA.lat # pointA.lon
    /\ measured.ab > 0

\* C18: every item the loop has passed has exactly one find_nearby call if
\* the map holds a coordinate for its id and none otherwise, and no later
\* item has any; every call is centred on that coordinate with a radius of
\* 30 km, which is the largest of the technology radii, so every stored row
\* within the radius of some technology of the point is among the rows the
\* query matches.
C18_OneQueryAtSearchRadius ==
    /\ \A j \in 1..Len(addresses) :
          Cardinality(QueriesOf(j)) =
              IF /\ Truthy(DictGet(coordinates, addresses[j].id))
                 /\ (j < i \/ (j = i /\ pc = "querying"))
              THEN 1 ELSE 0
    /\ \A n \in 1..Len(queryLog) :
          /\ queryLog[n].latitude = DictGet(coordinates, addresses[queryLog[n].item].id).latitude
          /\ queryLog[n].longitude = DictGet(coordinates, addresses[queryLog[n].item].id).longitude
          /\ queryLog[n].radius_km = 30
          /\ \A t \in DOMAIN TECHNOLOGY_RADII : TECHNOLOGY_RADII[t] <= queryLog[n].radius_km
          /\ \E t \in DOMAIN TECHNOLOGY_RADII : TECHNOLOGY_RADII[t] = queryLog[n].radius_km
          /\ \A m \in store :
                (\E t \in DOMAIN TECHNOLOGY_RADII :
                    calculate_distance_km(queryLog[n].latitude, queryLog[n].longitude,
                                          m.y, m.x) <= TECHNOLOGY_RADII[t])
                => m \in MatchingRows(store, queryLog[n].latitude,
                                      queryLog[n].longitude, queryLog[n].radius_km)

\* two items at different coordinates, each with its query, and a stored row
\* beyond the 4G radius but within the 2G radius of the first
C18_Witness ==
    /\ pc = "done"
    /\ critical = "none"
    /\ Len(addresses) = 2
    /\ Len(queryLog) = 2
    /\ queryLog[1].latitude # queryLog[2].latitude
    /\ \E m \in store :
          /\ calculate_distance_km(queryLog[1].latitude, queryLog[1].longitude,
                                   m.y, m.x) > TECHNOLOGY_RADII["4G"]
          /\ calculate_distance_km(queryLog[1].latitude, queryLog[1].longitude,
                                   m.y, m.x) <= TECHNOLOGY_RADII["2G"]

\* C19: the store queries of one execute call follow the order of the input
\* and never overlap: at most one find_nearby call is pending, it is the
\* latest one issued, and it belongs to the item the loop is at.
C19_StoreQueriesSerialized ==
    /\ Cardinality({ n \in 1..Len(queryLog) : queryLog[n].outcome = "pending" }) <= 1
    /\ \A n \in 1..Len(queryLog) :
          queryLog[n].outcome = "pending" =>
              /\ n = Len(queryLog)
              /\ pc = "querying"
              /\ queryLog[n].item = i
    /\ \A n, m \in 1..Len(queryLog) :
          n < m => queryLog[n].item < queryLog[m].item

\* the query of the second item is pending after the query of the first
\* has failed
C19_Witness ==
    /\ Len(queryLog) = 2
    /\ queryLog[1].outcome = "RepositoryError"
    /\ queryLog[2].outcome = "pending"

\* C20: while execute waits for the lookups, there is one lookup per entry
\* of the id-keyed dict, all started together; a lookup that has completed
\* keeps its outcome, which is an exception or the answer for its own
\* address, whatever its siblings do, and no lookup is cancelled; the wait
\* ends with a coordinate map only when no lookup is pending, and no store
\* query is issued before that.
C20_FanOutJoinsAll ==
    /\ [](pc \in {"gathering", "gathered"} =>
            /\ Len(tasks) = Len(AddressesDict(addresses))
            /\ queryLog = <<>>
            /\ \A k \in 1..Len(tasks) :
                  \/ tasks[k].kind = "pending"
                  \/ tasks[k] = ExceptionValue
                  \/ tasks[k] = GeocodeSingleAddress(
                                    ProviderResponse(AddressesDict(addresses)[k].address)))
    /\ [][(pc = "gathering" /\ pc' \in {"gathering", "gathered"}) =>
            /\ Len(tasks') = Len(tasks)
            /\ \A k \in 1..Len(tasks) :
                  tasks[k].kind # "pending" => tasks'[k] = tasks[k]
            /\ Cardinality({ k \in 1..Len(tasks) : tasks'[k] # tasks[k] }) <= 1]_vars
    /\ [][(pc = "gathering" /\ pc' = "gathered") =>
            \A k \in 1..Len(tasks) : tasks[k].kind # "pending"]_vars
    /\ [][Len(queryLog') > Len(queryLog) => (pc = "resolving" /\ tasks = <<>>)]_vars

\* the second lookup failed first, the first one then found its
\* coordinate, and the map holds it
C20_Witness ==
    /\ pc = "gathered"
    /\ completed = <<2, 1>>
    /\ tasks[2] = ExceptionValue
    /\ tasks[1].kind = "dict"
    /\ Truthy(DictGet(coordinates, AddressesDict(addresses)[1].id))

\* C21: nothing is retried within one execute call. The lookups are started
\* once, one per key; a lookup that has completed is never run again and
\* geocoding is never entered a second time, also after it failed; every
\* input item has at most one find_nearby call, a call that has completed
\* keeps its outcome, and a failed one is followed by no other call for the
\* same item.
C21_NoRetries ==
    /\ [](/\ Len(tasks) <= Len(AddressesDict(addresses))
          /\ \A a, b \in 1..Len(completed) : a # b => completed[a] # completed[b]
          /\ \A j \in 1..Len(addresses) : Cardinality(QueriesOf(j)) <= 1
          /\ geocodeExc # "none" => (tasks = <<>> /\ pc # "gathering"))
    /\ [][pc' = "gathering" => pc \in {"start", "gathering"}]_vars
    /\ [][pc = "gathering" /\ pc' = "gathering" =>
            /\ Len(tasks') = Len(tasks)
            /\ \A k \in 1..Len(tasks) :
                  tasks[k].kind # "pending" => tasks'[k] = tasks[k]]_vars
    /\ [][\A n \in 1..Len(queryLog) :
            /\ n <= Len(queryLog')
            /\ queryLog'[n].item = queryLog[n].item
            /\ queryLog[n].outcome # "pending" => queryLog'[n] = queryLog[n]]_vars
    /\ [][Len(queryLog') > Len(queryLog) =>
            /\ Len(queryLog') = Len(queryLog) + 1
            /\ \A n \in 1..Len(queryLog) :
                  queryLog[n].item < queryLog'[Len(queryLog')].item]_vars

\* a run in which the lookup of one address raised and the store query of
\* another item failed, and both items stayed all-false
C21_Witness ==
    /\ CleanRun
    /\ Len(addresses) = 2
    /\ Len(queryLog) = 1
    /\ queryLog[1].item = 2
    /\ queryLog[1].outcome = "RepositoryError"
    /\ addresses[1].address = "lyon"
    /\ ~Truthy(DictGet(coordinates, addresses[1].id))
    /\ AllFalseList(returned)

\* C22: when the outermost handler of execute has caught an exception,
\* execute returns, without raising, one item per input item, in input order
\* and under the input's id, each all-false for the four operators, whatever
\* the loop had appended to its results before the fault.
C22_CriticalFaultDegradesAll ==
    (pc = "done" /\ critical # "none") =>
        /\ raised = "none"
        /\ Len(returned) = Len(addresses)
        /\ \A j \in 1..Len(addresses) :
              /\ returned[j].id = addresses[j].id
              /\ AllFalse(returned[j])
              /\ returned[j] = EmptyResponseItem(addresses[j].id)

\* the fault came after the loop had resolved both items, one of them from
\* the sites its store query returned
C22_Witness ==
    /\ pc = "done"
    /\ critical = "Exception"
    /\ geocodeExc = "none"
    /\ Len(addresses) = 2
    /\ Len(results) = 2
    /\ \E n \in 1..Len(queryLog) :
          queryLog[n].outcome = "ok" /\ queryLog[n].sites # {}

\* C23: _geocode_single_address never completes with an exception. It returns
\* a coordinate dict only when the request succeeded, the answer decoded, and
\* its first feature carries a coordinate list of at least two components,
\* and then the dict holds the first as longitude and the second as latitude;
\* with no or an empty feature list, no geometry, no or a short coordinate
\* list, a timeout, a connection error, an HTTP error status, a request
\* error, invalid JSON or any other exception it returns None.
HasTwoComponents(answer) ==
    /\ answer.kind = "json"
    /\ HasAttr(answer, "features")
    /\ Len(answer.features) > 0
    /\ HasAttr(answer.features[1], "geometry")
    /\ HasAttr(answer.features[1].geometry, "coordinates")
    /\ Len(answer.features[1].geometry.coordinates) >= 2

C23_LookupNeverRaises ==
    lookup.kind # "pending" =>
        /\ lookup.kind \in {"dict", "None"}
        /\ lookup.kind = "dict" =>
              /\ HasTwoComponents(providerAnswer)
              /\ lookup.longitude = providerAnswer.features[1].geometry.coordinates[1]
              /\ lookup.latitude = providerAnswer.features[1].geometry.coordinates[2]
        /\ (providerAnswer.kind # "json" \/ ~HasTwoComponents(providerAnswer)) =>
              lookup = NoneValue

\* the request timed out and the lookup returned None
C23_Witness ==
    /\ providerAnswer.kind = "TimeoutException"
    /\ lookup = NoneValue

C25_PipelineAxes ==
    pc \in {"gathering", "gathered"} =>
        \A k \in 1..Len(tasks) :
            tasks[k].kind = "dict" =>
                /\ tasks[k].longitude =
                      ProviderResponse(AddressesDict(addresses)[k].address)
                          .features[1].geometry.coordinates[1]
                /\ tasks[k].latitude =
                      ProviderResponse(AddressesDict(addresses)[k].address)
                          .features[1].geometry.coordinates[2]

C25_QueryAxes ==
    \A n \in 1..Len(queryLog) :
        /\ queryLog[n].latitude = coordinates[addresses[queryLog[n].item].id].latitude
        /\ queryLog[n].longitude = coordinates[addresses[queryLog[n].item].id].longitude
        /\ queryLog[n].outcome = "ok" =>
              \A s \in queryLog[n].sites :
                  GeodInvMeters(s.location.x, s.location.y,
                                queryLog[n].longitude, queryLog[n].latitude)
                      <= queryLog[n].radius_km * MetersPerKm

C25_DistanceAxes ==
    \A n \in 1..Len(queryLog) :
        queryLog[n].outcome = "ok" =>
            \A s \in queryLog[n].sites, t \in Technologies :
                (/\ Supports(s.coverage, t)
                 /\ calculate_distance_km(queryLog[n].latitude, queryLog[n].longitude,
                                          s.location.y, s.location.x)
                        <= TECHNOLOGY_RADII[t])
                    => Supports(results[queryLog[n].item][FieldOf(Lower(s.operator))], t)

C25_AxesNeverSwapped ==
    /\ C25_PipelineAxes
    /\ C25_QueryAxes
    /\ C25_DistanceAxes

WellFormedRow(row) ==
    /\ HasAttr(row, "Operateur")
    /\ row["Operateur"] \in {"Orange", "SFR", "Bouygues", "Free"}
    /\ \/ /\ HasAttr(row, "longitude") /\ HasAttr(row, "latitude")
          /\ row["longitude"] \in NumberTexts /\ row["latitude"] \in NumberTexts
       \/ /\ ~(HasAttr(row, "longitude") /\ HasAttr(row, "latitude"))
          /\ HasAttr(row, "x") /\ HasAttr(row, "y")
          /\ row["x"] \in NumberTexts /\ row["y"] \in NumberTexts
    /\ \A t \in {"2G", "3G", "4G"} : HasAttr(row, t) /\ row[t] \in NumberTexts

WellFormedRows == { k \in 1..Len(csvRows) : WellFormedRow(csvRows[k]) }

C27_WellFormedRowsLoaded ==
    /\ \A k \in 1..Len(parsed) :
          WellFormedRow(csvRows[k]) =>
              /\ parsed[k].exc = "none"
              /\ parsed[k].site.operator = csvRows[k]["Operateur"]
              /\ parsed[k].site.location.x = RowCoordinates(csvRows[k]).longitude
              /\ parsed[k].site.location.y = RowCoordinates(csvRows[k]).latitude
              /\ parsed[k].site.coverage.has_2g = (csvRows[k]["2G"] # "0")
              /\ parsed[k].site.coverage.has_3g = (csvRows[k]["3G"] # "0")
              /\ parsed[k].site.coverage.has_4g = (csvRows[k]["4G"] # "0")
    /\ (loadPc = "done" /\ loadResult.exc = "none") =>
          /\ loadResult.value = Cardinality(WellFormedRows)
          /\ Len(savedSites) = Cardinality(WellFormedRows)

\* C28: find_nearby is never called for an item whose id has no coordinate
\* in the map. Every call belongs to an item whose id the map holds; while
\* the loop runs there are as many calls as items with a coordinate that the
\* loop has reached, and when execute has ended there are as many calls as
\* input items whose id is in the map: none when the map is empty.
ItemsWithCoordinate ==
    { j \in 1..Len(addresses) : coordinates[addresses[j].id].kind = "dict" }

C28_QueriesOnlyForCoordinates ==
    \E with_coordinate \in {ItemsWithCoordinate} :
        /\ \A n \in 1..Len(queryLog) : queryLog[n].item \in with_coordinate
        /\ Len(queryLog) =
              Cardinality({ j \in with_coordinate :
                               j < i \/ (j = i /\ pc = "querying") })
        /\ (pc = "done" /\ critical = "none") =>
              Len(queryLog) = Cardinality(with_coordinate)
        /\ with_coordinate = {} => queryLog = <<>>

\* of two items one has a coordinate and one has none, and execute has
\* returned after a single store query, for the second item
C28_Witness ==
    /\ CleanRun
    /\ Len(addresses) = 2
    /\ ItemsWithCoordinate = {2}
    /\ Len(queryLog) = 1
    /\ queryLog[1].item = 2
    /\ store # {}

\* C29: the lookups are made for the id-keyed dict, not for the input list.
\* There are as many lookups as distinct ids in the batch; the k-th lookup
\* is for the k-th distinct id in order of first appearance and, when it
\* returns, returns the answer for the address text of the last input item
\* with that id; every store query of an item is centred on the coordinate
\* geocoded from that text, also for the items that carried another text.
DistinctIds == { addresses[j].id : j \in 1..Len(addresses) }

\* the position at which the k-th distinct id first appears
FirstAppearance(k) ==
    CHOOSE j \in 1..Len(addresses) :
        /\ \A m \in 1..(j - 1) : addresses[m].id # addresses[j].id
        /\ Cardinality({ addresses[m].id : m \in 1..j }) = k

C29_OneLookupPerDistinctId ==
    /\ pc \in {"gathering", "gathered"} =>
          /\ Len(tasks) = Cardinality(DistinctIds)
          /\ \A k \in 1..Len(tasks) :
                tasks[k].kind \notin {"pending", "Exception"} =>
                    tasks[k] = LastLookup(FirstAppearance(k))
          /\ pc = "gathered" =>
                \A k \in 1..Len(tasks) :
                    tasks[k].kind = "dict" =>
                        coordinates[addresses[FirstAppearance(k)].id] = tasks[k]
    /\ \A n \in 1..Len(queryLog) :
          \E found \in {LastLookup(queryLog[n].item)} :
              /\ found.kind = "dict"
              /\ queryLog[n].latitude = found.latitude
              /\ queryLog[n].longitude = found.longitude

\* two items share an id, the first with a text the provider does not know;
\* both were resolved at the coordinate of the second item's text
C29_Witness ==
    /\ CleanRun
    /\ Len(addresses) = 2
    /\ addresses[1].id = addresses[2].id
    /\ addresses[1].address = "nowhere"
    /\ addresses[2].address = "lyon"
    /\ Len(queryLog) = 2
    /\ queryLog[1].item = 1
    /\ queryLog[1].latitude = 21 /\ queryLog[1].longitude = 20
    /\ queryLog[2].latitude = 21 /\ queryLog[2].longitude = 20

\* C30: a request with at least one address is never answered by an
\* exception handler of the application, whatever the geocoder and the store
\* did: no answer has status 503 or 500, and the answer to such a request has
\* status 200 and carries the list execute returned, one item per input item
\* in input order and under its id.
C30_FailuresNeverReachHandlers ==
    /\ response.status \notin {503, 500}
    /\ raised \notin {"RepositoryError", "GeocodingError"}
    /\ (addresses # <<>> /\ pc = "responded") =>
          /\ response.status = 200
          /\ response.body = returned
          /\ Len(response.body) = Len(addresses)
          /\ \A j \in 1..Len(addresses) : response.body[j].id = addresses[j].id

\* answered 200 although geocode_addresses had raised GeocodingError
C30_Witness ==
    /\ pc = "responded"
    /\ response.status = 200
    /\ geocodeExc = "GeocodingError"
    /\ Len(response.body) = 2
    /\ store # {}

====
